---------------------------- MODULE Spec2Model ----------------------------
(***************************************************************************)
(* Model of the chat scripts under src/andres_scripts.                     *)
(*                                                                         *)
(* Every script is a chat() coroutine: a loop that reads a line from the   *)
(* user, updates a ChatMemoryContext and awaits Runner.run of some agent.  *)
(* The language model behind Runner.run is not part of the repository: a   *)
(* run's final output (and, where an agent has handoffs, the agent that    *)
(* ends up answering) is an input of the model, drawn from a small set.    *)
(* chat() is cut into actions at its suspension points (input(), await):   *)
(* an action is the straight-line code between two of them.                *)
(*                                                                         *)
(* Text.  A Python str is modelled as a sequence of atoms, an atom being   *)
(* a group of characters that no text of the model splits.  Every string   *)
(* literal the code searches for is itself a sequence of whole atoms, so   *)
(* Python's substring test is the contiguous-subsequence test on atoms.    *)
(***************************************************************************)
EXTENDS Naturals, Integers, Sequences, FiniteSets, TLC

VARIABLES
    script,     \* which script's chat() is running
    pc,         \* position of chat(): "input", an awaited run, "done", "crashed"
    context,    \* the ChatMemoryContext instance (a record of its fields)
    locals,     \* local variables of chat() that live across an await
    obs         \* observation of the session: what was said, run and shown

vars == <<script, pc, context, locals, obs>>

-----------------------------------------------------------------------------
(* Bounds of the model                                                     *)

\* user inputs read in one session of the open-ended chats
MaxTurns == 3

\* user inputs read in one session of the math tutor
MaxTutorTurns == 3

\* atoms of a text handed to detect_language on its own
MaxTextLen == 3

-----------------------------------------------------------------------------
(* Python str operations on sequences of atoms                             *)

Whitespace == {" ", "\n"}

\* str.lower(), atom by atom
LowerAtom(a) ==
    CASE a = "SALIR" -> "salir"
      [] a = "EXIT"  -> "exit"
      [] a = "Hola"  -> "hola"
      [] a = "English" -> "english"
      [] a = "¿En qué " -> "¿en qué "
      [] a = "¿Qué " -> "¿qué "
      [] a = "De acuerdo." -> "de acuerdo."
      [] a = "Usuario" -> "usuario"
      [] a = "Asistente" -> "asistente"
      [] OTHER -> a

Lower(s) == [i \in 1..Len(s) |-> LowerAtom(s[i])]

\* p occurs in s at position i
OccursAt(p, s, i) ==
    /\ i >= 1
    /\ i + Len(p) - 1 <= Len(s)
    /\ \A k \in 1..Len(p) : s[i + k - 1] = p[k]

\* Python: p in s
Contains(p, s) == \E i \in 1..(Len(s) + 1) : OccursAt(p, s, i)

\* Python: s.startswith(p)
StartsWith(s, p) == OccursAt(p, s, 1)

\* Python: s.replace(p, ""), one left-to-right pass over non-overlapping
\* occurrences (p is not empty)
RECURSIVE Remove(_, _)
Remove(s, p) ==
    IF s = <<>> THEN <<>>
    ELSE IF OccursAt(p, s, 1)
         THEN Remove(SubSeq(s, Len(p) + 1, Len(s)), p)
         ELSE <<Head(s)>> \o Remove(Tail(s), p)

RECURSIVE LStrip(_)
LStrip(s) ==
    IF s # <<>> /\ Head(s) \in Whitespace THEN LStrip(Tail(s)) ELSE s

RECURSIVE RStrip(_)
RStrip(s) ==
    IF s # <<>> /\ s[Len(s)] \in Whitespace
    THEN RStrip(SubSeq(s, 1, Len(s) - 1)) ELSE s

\* Python: s.strip()
Strip(s) == RStrip(LStrip(s))

\* Python: s.split(sep): the pieces between the occurrences of sep
RECURSIVE SplitFrom(_, _, _)
SplitFrom(s, sep, piece) ==
    IF s = <<>> THEN <<piece>>
    ELSE IF OccursAt(sep, s, 1)
         THEN <<piece>> \o SplitFrom(SubSeq(s, Len(sep) + 1, Len(s)), sep, <<>>)
         ELSE SplitFrom(Tail(s), sep, Append(piece, Head(s)))

Split(s, sep) == SplitFrom(s, sep, <<>>)

\* Python: s.split(): the maximal runs of non-whitespace
RECURSIVE WordsFrom(_, _)
WordsFrom(s, word) ==
    IF s = <<>> THEN (IF word = <<>> THEN <<>> ELSE <<word>>)
    ELSE IF Head(s) \in Whitespace
         THEN (IF word = <<>> THEN <<>> ELSE <<word>>) \o WordsFrom(Tail(s), <<>>)
         ELSE WordsFrom(Tail(s), Append(word, Head(s)))

Words(s) == WordsFrom(s, <<>>)

\* Python: "\n".join(lines)
RECURSIVE JoinLines(_)
JoinLines(lines) ==
    IF lines = <<>> THEN <<>>
    ELSE IF Len(lines) = 1 THEN lines[1]
    ELSE lines[1] \o <<"\n">> \o JoinLines(Tail(lines))

\* Python: f"{role}: {content}"
FormatLine(role, content) == <<role, ":", " ">> \o content

IsPrefix(s, t) == Len(s) <= Len(t) /\ SubSeq(t, 1, Len(s)) = s

-----------------------------------------------------------------------------
(* Observation of a session (not program state)                            *)
(*   said       every user line read (after the exit test) and every final *)
(*              output printed, as [role, content], in order               *)
(*   responders for each final output, the agent that produced it          *)
(*   turns      number of user lines read                                  *)
(*   detector   what became of the language detector in the current turn:  *)
(*              "idle" (not run), "running", "answered" or "raised"        *)
(*   detected   the detector's final output, while the agent chosen after  *)
(*              it is awaited                                              *)
(*   shown      09: the last message handed to display_agent_message       *)
(*   runs       09: the runs that returned since the last user line, each  *)
(*              with its agent, the flow state it ran in and its output    *)
(*   since_calibration  09: "no" while the calibration phase has not       *)
(*              ended, "ended" from its end to the start of the next run,  *)
(*              then the agent of that run                                 *)
(*   handoffs   number of runs in which the triage agent handed off        *)
(*   handoff_mark  the number of history entries that preceded the user    *)
(*              line whose run made the last handoff                       *)

Said(o, role, content) ==
    [o EXCEPT !.said = Append(@, [role |-> role, content |-> content])]

InitObs ==
    [said |-> <<>>, responders |-> <<>>, turns |-> 0,
     handoffs |-> 0, handoff_mark |-> 0, detector |-> "idle",
     detected |-> <<>>,
     shown |-> <<>>, runs |-> <<>>, since_calibration |-> "no"]

NoLocals == [none |-> TRUE]

-----------------------------------------------------------------------------
(* 05_chat_agent_sequential_handoff.py and                                 *)
(* 07_chat_agent_sequential_programmatic.py                                *)

SpanishQuota == 2
EnglishQuota == 2
ResponseLimit == 4

SpanishAgent == "Asistente Español"
EnglishAgent == "English Assistant"
TriageAgent  == "Triage Agent"

SeqExitWords == {<<"salir">>, <<"exit">>, <<"quit">>}

SeqInputs == {<<"salir">>, <<"EXIT">>, <<"hola">>, <<"hello">>}
SeqOutputs == {<<"hola">>, <<"hello">>}

\* the agents that can produce the final output of Runner.run(triage_agent):
\* the triage agent itself or one of its two handoff targets
TriageResponders == {TriageAgent, SpanishAgent, EnglishAgent}

InitContext05 ==
    [history |-> <<>>, spanish_responses |-> 0, english_responses |-> 0]

InitContext07 ==
    [history |-> <<>>, response_count |-> 0,
     spanish_responses |-> 0, english_responses |-> 0]

\* 05: ChatMemoryContext.add_message
add_message_05(ctx, role, content) ==
    LET c1 == [ctx EXCEPT !.history = Append(@, FormatLine(role, content))]
    IN  IF role = "assistant"
        THEN IF c1.spanish_responses < SpanishQuota
             THEN [c1 EXCEPT !.spanish_responses = @ + 1]
             ELSE [c1 EXCEPT !.english_responses = @ + 1]
        ELSE c1

\* can_respond with the comparison off by one (a faulty variant, used to
\* test that the properties depend on can_respond)
can_respond_05_off_by_one(ctx) ==
    (ctx.spanish_responses + ctx.english_responses) <= ResponseLimit

\* 05: ChatMemoryContext.can_respond
can_respond_05(ctx) ==
    (ctx.spanish_responses + ctx.english_responses) < ResponseLimit

\* 07: ChatMemoryContext.add_message
add_message_07(ctx, role, content) ==
    LET c1 == [ctx EXCEPT !.history = Append(@, FormatLine(role, content))]
    IN  IF role = "assistant"
        THEN [c1 EXCEPT !.response_count = @ + 1]
        ELSE c1

\* get_response_phase with the two language tests in the other order (a
\* faulty variant)
get_response_phase_swapped(ctx) ==
    IF ctx.english_responses < EnglishQuota THEN "english"
    ELSE IF ctx.spanish_responses < SpanishQuota THEN "spanish"
    ELSE "limit_reached"

\* 07: ChatMemoryContext.get_response_phase
get_response_phase(ctx) ==
    IF ctx.spanish_responses < SpanishQuota THEN "spanish"
    ELSE IF ctx.english_responses < EnglishQuota THEN "english"
    ELSE "limit_reached"

\* 07: ChatMemoryContext.increment_language_count
increment_language_count(ctx, lang) ==
    IF lang = "spanish"
    THEN [ctx EXCEPT !.spanish_responses = @ + 1]
    ELSE [ctx EXCEPT !.english_responses = @ + 1]

\* 05 chat(): one pass from input() to the await of Runner.run(triage_agent)
Seq05_Input(inp) ==
    /\ script = "05_sequential_handoff"
    /\ pc = "input"
    /\ IF Lower(inp) \in SeqExitWords
       THEN /\ pc' = "done"
            /\ UNCHANGED <<context, obs>>
       ELSE LET ctx == add_message_05(context, "user", inp)
            IN  /\ context' = ctx
                /\ obs' = [Said(obs, "user", inp) EXCEPT !.turns = @ + 1]
                /\ pc' = IF ~can_respond_05(ctx) THEN "done" ELSE "run_triage"
    /\ UNCHANGED <<script, locals>>

\* 05 chat(): Runner.run(triage_agent) returned out, produced by responder
Seq05_RunDone(out, responder) ==
    /\ script = "05_sequential_handoff"
    /\ pc = "run_triage"
    /\ context' = add_message_05(context, "assistant", out)
    /\ obs' = [Said(obs, "assistant", out) EXCEPT
                  !.responders = Append(@, responder)]
    /\ pc' = "input"
    /\ UNCHANGED <<script, locals>>

\* 07 chat(): one pass from input() to the await of Runner.run(selected_agent)
Seq07_Input(inp) ==
    /\ script = "07_sequential_programmatic"
    /\ pc = "input"
    /\ IF Lower(inp) \in SeqExitWords
       THEN /\ pc' = "done"
            /\ UNCHANGED <<context, obs, locals>>
       ELSE LET ctx   == add_message_07(context, "user", inp)
                phase == get_response_phase(ctx)
            IN  /\ context' = ctx
                /\ obs' = [Said(obs, "user", inp) EXCEPT !.turns = @ + 1]
                /\ IF phase = "limit_reached"
                   THEN pc' = "done" /\ UNCHANGED locals
                   ELSE /\ pc' = "run_selected"
                        /\ locals' = [phase |-> phase,
                                      selected_agent |->
                                          IF phase = "spanish" THEN SpanishAgent
                                          ELSE EnglishAgent]
    /\ UNCHANGED script

\* 07 chat(): Runner.run(selected_agent) returned out (the agents of 07 have
\* no handoffs: the selected agent is the one that answers)
Seq07_RunDone(out) ==
    /\ script = "07_sequential_programmatic"
    /\ pc = "run_selected"
    /\ context' = increment_language_count(
                      add_message_07(context, "assistant", out), locals.phase)
    /\ obs' = [Said(obs, "assistant", out) EXCEPT
                  !.responders = Append(@, locals.selected_agent)]
    /\ pc' = "input"
    /\ locals' = NoLocals
    /\ UNCHANGED script

\* Runner.run raises (model or network failure): no script catches it around
\* the run of an answering agent, and asyncio.run(chat()) ends with the error
RunRaises ==
    /\ pc \in {"run_triage", "run_selected", "run_first", "run_main", "run_extra"}
    /\ pc' = "crashed"
    /\ UNCHANGED <<script, context, locals, obs>>

InitSeq ==
    /\ script \in {"05_sequential_handoff", "07_sequential_programmatic"}
    /\ pc = "input"
    /\ context = IF script = "05_sequential_handoff"
                 THEN InitContext05 ELSE InitContext07
    /\ locals = NoLocals
    /\ obs = InitObs

NextSeq ==
    \/ \E inp \in SeqInputs : Seq05_Input(inp)
    \/ \E out \in SeqOutputs, r \in TriageResponders : Seq05_RunDone(out, r)
    \/ \E inp \in SeqInputs : Seq07_Input(inp)
    \/ \E out \in SeqOutputs : Seq07_RunDone(out)
    \/ RunRaises

SpecSeq == InitSeq /\ [][NextSeq]_vars

-----------------------------------------------------------------------------
(* 04_chat_agent_with_memory.py (07_chat_agent_with_memory.py is the same  *)
(* code without the docstrings)                                            *)

ChatInputs == {<<"exit">>, <<"salir">>, <<"hola">>, <<"hello">>}
ChatOutputs == {<<"hola">>, <<"hello">>}

Triage04 == "Triage Assistant"
Spanish04 == "Spanish Assistant"
English04 == "English Assistant"

InitContext04 == [conversation_history |-> <<>>]

\* add_message that starts the list anew at every assistant message (a
\* faulty variant: the loss of history the docstrings describe)
add_message_04_overwrite(ctx, role, content) ==
    [ctx EXCEPT !.conversation_history =
        IF role = "assistant"
        THEN <<[role |-> role, content |-> content]>>
        ELSE Append(@, [role |-> role, content |-> content])]

\* 04: ChatMemoryContext.add_message
add_message_04(ctx, role, content) ==
    [ctx EXCEPT !.conversation_history =
        Append(@, [role |-> role, content |-> content])]

\* the lines get_history_as_string joins, for a list of role/content records
FormatMessages(msgs) ==
    [i \in 1..Len(msgs) |-> FormatLine(msgs[i].role, msgs[i].content)]

\* 04: ChatMemoryContext.get_history_as_string
get_history_as_string(ctx) ==
    JoinLines(FormatMessages(ctx.conversation_history))

\* 04 chat(): from input() to the await of Runner.run(triage_agent)
Mem04_Input(inp) ==
    /\ script = "04_with_memory"
    /\ pc = "input"
    /\ IF Lower(inp) = <<"exit">>
       THEN /\ pc' = "done"
            /\ UNCHANGED <<context, obs>>
       ELSE /\ obs.turns < MaxTurns
            /\ context' = add_message_04(context, "user", inp)
            /\ obs' = [Said(obs, "user", inp) EXCEPT !.turns = @ + 1]
            /\ pc' = "run_triage"
    /\ UNCHANGED <<script, locals>>

\* 04 chat(): Runner.run(triage_agent) returned out, produced by responder;
\* a responder other than the triage agent means a handoff took place during
\* the run (handoff_filter and ChatHooks only read the context)
Mem04_RunDone(out, responder) ==
    /\ script = "04_with_memory"
    /\ pc = "run_triage"
    /\ context' = add_message_04(context, "assistant", out)
    /\ obs' = [Said(obs, "assistant", out) EXCEPT
                  !.responders = Append(@, responder),
                  !.handoff_mark =
                      IF responder # Triage04
                      THEN Len(context.conversation_history) - 1 ELSE @,
                  !.handoffs = IF responder # Triage04 THEN @ + 1 ELSE @]
    /\ pc' = "input"
    /\ UNCHANGED <<script, locals>>

-----------------------------------------------------------------------------
(* 05_chat_agent_with_unified_memory[debug].py and                         *)
(* 08_chat_agent_with_unified_memory.py (the same code without the debug   *)
(* prints)                                                                 *)

InitContextPlain == [history |-> <<>>]

\* add_message that puts the entry first (a faulty variant)
add_message_prepend(ctx, role, content) ==
    [ctx EXCEPT !.history = <<FormatLine(role, content)>> \o @]

\* add_message that records no user line (a faulty variant)
add_message_drop_user(ctx, role, content) ==
    IF role = "Usuario" THEN ctx
    ELSE [ctx EXCEPT !.history = Append(@, FormatLine(role, content))]

\* 05[debug], 06, 08, 04 programmatic: ChatMemoryContext.add_message
add_message(ctx, role, content) ==
    [ctx EXCEPT !.history = Append(@, FormatLine(role, content))]

\* ChatMemoryContext.get_history
get_history(ctx) == JoinLines(ctx.history)

\* the indentation of the lines of the prompts
Indent == "    "

\* dynamic_spanish_instructions: the f-string, with get_history() spliced
\* in where {history} stands
dynamic_spanish_instructions(ctx) ==
    <<"Eres un asistente en español. ", "\n",
      Indent, "Siempre responde en español.", "\n",
      Indent, "\n",
      Indent, "IMPORTANTE: Revisa el historial de la conversación antes de responder:", "\n",
      Indent, "\n",
      Indent>>
    \o get_history(ctx)
    \o <<"\n",
          Indent, "\n",
          Indent, "Mantén la coherencia con los mensajes anteriores. Si el usuario menciona algo ", "\n",
          Indent, "que se habló antes, debes tenerlo en cuenta en tu respuesta.", "\n",
          Indent, "\n",
          Indent, "Tienes acceso a las siguientes herramientas:", "\n",
          Indent, "- get_weather: Para obtener el clima", "\n",
          Indent, "- calculate: Para hacer cálculos matemáticos">>

\* dynamic_english_instructions
dynamic_english_instructions(ctx) ==
    <<"You are an English assistant.", "\n",
      Indent, "Always respond in English.", "\n",
      Indent, "\n",
      Indent, "IMPORTANT: Review the conversation history before responding:", "\n",
      Indent, "\n",
      Indent>>
    \o get_history(ctx)
    \o <<"\n",
          Indent, "\n",
          Indent, "Maintain coherence with previous messages. If the user refers to something ", "\n",
          Indent, "that was discussed earlier, you should take it into account in your response.", "\n",
          Indent, "\n",
          Indent, "You have access to the following tools:", "\n",
          Indent, "- get_weather: To get weather information", "\n",
          Indent, "- calculate: To perform mathematical calculations">>

\* the instructions the runner asks of an agent when it starts it
InstructionsOf(agent, ctx) ==
    IF agent = SpanishAgent THEN dynamic_spanish_instructions(ctx)
    ELSE dynamic_english_instructions(ctx)

\* chat(): from input() to the await of Runner.run(triage_agent)
Uni_Input(inp) ==
    /\ script = "08_unified_memory"
    /\ pc = "input"
    /\ IF Lower(inp) = <<"salir">>
       THEN /\ pc' = "done"
            /\ UNCHANGED <<context, obs>>
       ELSE /\ obs.turns < MaxTurns
            /\ context' = add_message(context, "Usuario", inp)
            /\ obs' = [Said(obs, "Usuario", inp) EXCEPT !.turns = @ + 1]
            /\ pc' = "run_triage"
    /\ UNCHANGED <<script, locals>>

\* inside Runner.run(triage_agent): the triage agent hands off to a language
\* agent, whose instructions are generated from the context at that moment
Uni_Handoff(agent) ==
    /\ script = "08_unified_memory"
    /\ pc = "run_triage"
    /\ locals' = [selected_agent |-> agent,
                  instructions |-> InstructionsOf(agent, context)]
    /\ pc' = "run_selected"
    /\ UNCHANGED <<script, context, obs>>

\* chat(): Runner.run returned out: answered by the triage agent itself
\* (pc = "run_triage") or by the language agent it handed off to
Uni_RunDone(out) ==
    /\ script = "08_unified_memory"
    /\ pc \in {"run_triage", "run_selected"}
    /\ context' = add_message(context, "Asistente", out)
    /\ obs' = [Said(obs, "Asistente", out) EXCEPT
                  !.responders = Append(@, IF pc = "run_triage" THEN Triage04
                                           ELSE locals.selected_agent)]
    /\ pc' = "input"
    /\ locals' = NoLocals
    /\ UNCHANGED script

-----------------------------------------------------------------------------
(* 06_chat_agent_programmatic.py and 04_chat_agent_programmatic.py (the    *)
(* same chat() and detect_language)                                        *)

spanish_patterns ==
    {<<"ñ">>, <<"á">>, <<"é">>, <<"í">>, <<"ó">>, <<"ú">>, <<"ü">>, <<"¿">>,
     <<"¡">>, <<"como">>, <<"qu", "é">>, <<"c", "ó", "mo">>, <<"hola">>,
     <<"buenos">>, <<"gracias">>, <<"por", " ", "favor">>, <<"adios">>,
     <<"d", "í", "a">>}

english_patterns ==
    {<<"hello">>, <<"the">>, <<"hi">>, <<"thanks">>, <<"what">>, <<"where">>,
     <<"when">>, <<"who">>, <<"why">>, <<"how">>, <<"please">>, <<"good">>}

\* detect_language with a tie counted as Spanish (a faulty variant)
detect_language_ties_spanish(text) ==
    LET t == Lower(text)
        spanish_count == Cardinality({p \in spanish_patterns : Contains(p, t)})
        english_count == Cardinality({p \in english_patterns : Contains(p, t)})
    IN  IF spanish_count >= english_count THEN "spanish" ELSE "english"

\* detect_language
detect_language(text) ==
    LET t == Lower(text)
        spanish_count == Cardinality({p \in spanish_patterns : Contains(p, t)})
        english_count == Cardinality({p \in english_patterns : Contains(p, t)})
    IN  IF spanish_count > english_count THEN "spanish" ELSE "english"

DetectorWordLimit == 3

ProgInputs ==
    {<<"salir">>,
     <<"gracias", " ", "por", " ", "favor">>,
     <<"Hola">>,
     <<"hola", " ", "hello">>,
     <<"¿", "qu", "é", " ", "d", "í", "a", " ", "es", " ", "hoy", "?">>,
     <<"hello", " ", "how", " ", "are", " ", "you">>,
     <<"me", " ", "puedes", " ", "ayudar", " ", "hoy">>}

DetectorOutputs ==
    {<<"spanish">>, <<" ", "English", "\n">>, <<"es">>}

\* the answer taken as it comes, without strip() (a faulty variant)
DetectedLanguage_no_strip(out) ==
    IF Lower(out) = <<"spanish">> THEN "spanish"
    ELSE IF Lower(out) = <<"english">> THEN "english"
    ELSE ""

\* the language a detector answer stands for, after strip() and lower();
\* "" when it is neither of the two accepted answers
DetectedLanguage(out) ==
    LET detected_language == Lower(Strip(out))
    IN  IF detected_language = <<"spanish">> THEN "spanish"
        ELSE IF detected_language = <<"english">> THEN "english"
        ELSE ""

\* chat(): last_language = language, agent selection and the start of
\* Runner.run(selected_agent), which generates the agent's instructions
ProgSelect(ctx, language) ==
    LET agent == IF language = "spanish" THEN SpanishAgent ELSE EnglishAgent
    IN  /\ locals' = [last_language |-> language,
                      language |-> language,
                      selected_agent |-> agent,
                      instructions |-> InstructionsOf(agent, ctx)]
        /\ pc' = "run_selected"

\* the test of chat() without its first half: the detector is asked about
\* every long input, whatever the last language was (a faulty variant)
NeedsDetector_ignoring_last(last_language, language, user_input) ==
    Len(Words(user_input)) > DetectorWordLimit

\* chat(), lines 250-252: whether the language detector is run in the turn
NeedsDetector(last_language, language, user_input) ==
    /\ (last_language = "None" \/ last_language # language)
    /\ Len(Words(user_input)) > DetectorWordLimit

\* chat(): from input() to the first await of the turn
Prog_Input(inp) ==
    /\ script = "06_programmatic"
    /\ pc = "input"
    /\ IF Lower(inp) = <<"salir">>
       THEN /\ pc' = "done"
            /\ UNCHANGED <<context, obs, locals>>
       ELSE LET ctx == add_message(context, "Usuario", inp)
                language == detect_language(inp)
            IN  /\ obs.turns < MaxTurns
                /\ context' = ctx
                /\ IF NeedsDetector(locals.last_language, language, inp)
                   THEN /\ locals' = [locals EXCEPT !.language = language]
                        /\ obs' = [Said(obs, "Usuario", inp) EXCEPT
                                      !.turns = @ + 1, !.detector = "running"]
                        /\ pc' = "run_detector"
                   ELSE /\ ProgSelect(ctx, language)
                        /\ obs' = [Said(obs, "Usuario", inp) EXCEPT
                                      !.turns = @ + 1, !.detector = "idle"]
    /\ UNCHANGED script

\* chat(): Runner.run(language_detector) returned out
Prog_DetectorDone(out) ==
    /\ script = "06_programmatic"
    /\ pc = "run_detector"
    /\ ProgSelect(context,
                  IF DetectedLanguage(out) # "" THEN DetectedLanguage(out)
                  ELSE locals.language)
    /\ obs' = [obs EXCEPT !.detector = "answered", !.detected = out]
    /\ UNCHANGED <<script, context>>

\* the detector's exception leaves chat() uncaught and ends the session (a
\* faulty variant: the loop without its try/except)
Prog_DetectorRaises_uncaught ==
    /\ script = "06_programmatic"
    /\ pc = "run_detector"
    /\ pc' = "crashed"
    /\ obs' = [obs EXCEPT !.detector = "raised"]
    /\ UNCHANGED <<script, context, locals>>

\* chat(): Runner.run(language_detector) raised: the except clause prints
\* the error and the turn goes on with the pattern-based language
Prog_DetectorRaises ==
    /\ script = "06_programmatic"
    /\ pc = "run_detector"
    /\ ProgSelect(context, locals.language)
    /\ obs' = [obs EXCEPT !.detector = "raised"]
    /\ UNCHANGED <<script, context>>

\* chat(): Runner.run(selected_agent) returned out
Prog_RunDone(out) ==
    /\ script = "06_programmatic"
    /\ pc = "run_selected"
    /\ context' = add_message(context, "Asistente", out)
    /\ obs' = [Said(obs, "Asistente", out) EXCEPT
                  !.responders = Append(@, locals.selected_agent),
                  !.detected = <<>>]
    /\ locals' = [locals EXCEPT !.instructions = <<>>]
    /\ pc' = "input"
    /\ UNCHANGED script

InitProgLocals ==
    [last_language |-> "None", language |-> "None",
     selected_agent |-> "None", instructions |-> <<>>]

InitChat ==
    /\ script \in {"04_with_memory", "08_unified_memory", "06_programmatic"}
    /\ pc = "input"
    /\ context = IF script = "04_with_memory"
                 THEN InitContext04 ELSE InitContextPlain
    /\ locals = IF script = "06_programmatic" THEN InitProgLocals ELSE NoLocals
    /\ obs = InitObs

NextChat ==
    \/ \E inp \in ChatInputs : Mem04_Input(inp)
    \/ \E out \in ChatOutputs, r \in {Triage04, Spanish04, English04} :
           Mem04_RunDone(out, r)
    \/ \E inp \in ChatInputs : Uni_Input(inp)
    \/ \E agent \in {SpanishAgent, EnglishAgent} : Uni_Handoff(agent)
    \/ \E out \in ChatOutputs : Uni_RunDone(out)
    \/ \E inp \in ProgInputs : Prog_Input(inp)
    \/ \E out \in DetectorOutputs : Prog_DetectorDone(out)
    \/ Prog_DetectorRaises
    \/ \E out \in ChatOutputs : Prog_RunDone(out)
    \/ RunRaises

SpecChat == InitChat /\ [][NextChat]_vars

-----------------------------------------------------------------------------
(* 09_chat_agent_math_tutor.py                                             *)

\* the control token "[TRANSFERENCIA_CONTROL]" (two atoms, so that a text
\* can hold one occurrence nested inside another)
SENTINEL == <<"[TRANSFERENCIA_", "CONTROL]">>

\* the two fixed questions of the diagnostic agent
Q1 == <<"¿En qué ", "tema", " ocupas ayuda hoy", "?">>
Q2 == <<"¿Qué ", "sabes", " sobre el ", "tema", "?">>

Orchestrator == "Orchestrator"
DiagnosticAgent == "DiagnosticAgent"
CalibratorAgent == "CalibratorAgent"
ScaffoldingAgent == "ScaffoldingAgent"

\* number of characters of an atom (len() counts characters)
AtomLen(a) ==
    CASE a = "álgebra"  -> 7
      [] a = "fácil"    -> 5
      [] a = "difícil"  -> 7
      [] a = "entiendo" -> 8
      [] a = "nada"     -> 4
      [] a = "exit"     -> 4
      [] a = "xyz"      -> 3
      [] OTHER -> 1

RECURSIVE CharLen(_)
CharLen(s) == IF s = <<>> THEN 0 ELSE AtomLen(Head(s)) + CharLen(Tail(s))

OperatorChars == {"+", "-", "*", "/", "=", "^"}

EasyWordsChat == {<<"fácil">>, <<"facil">>, <<"sencill">>}
HardWordsChat == {<<"difícil">>, <<"dificil">>, <<"complic">>, <<"complex">>}
HardWordsFragment == {<<"difícil">>, <<"dificil">>, <<"complic">>}
EasyWordsAnalyze == {<<"fácil">>, <<"sencill", "o">>}
HardWordsAnalyze == {<<"difícil">>, <<"complejo">>}

\* the words chat() takes as a reference to the k-th expression
NumberWords(k) ==
    CASE k = 1 -> {<<"1">>, <<"uno">>, <<"primer">>}
      [] k = 2 -> {<<"2">>, <<"dos">>, <<"segund">>}
      [] k = 3 -> {<<"3">>, <<"tres">>, <<"tercer">>}
      [] k = 4 -> {<<"4">>, <<"cuatro">>, <<"cuart">>}

ContainsAny(ps, s) == \E p \in ps : Contains(p, s)

understanding_phrases ==
    {<<"entendí">>, <<"comprendo">>, <<"entiendo">>,
     <<"tiene", " ", "sentido">>, <<"ya", " ", "entendí">>,
     <<"lo", " ", "tengo">>, <<"quedó", " ", "claro">>,
     <<"ahora", " ", "sí">>, <<"me", " ", "quedó", " ", "claro">>,
     <<"lo", " ", "he", " ", "entendido">>,
     <<"ya", " ", "lo", " ", "entendí">>, <<"ya", " ", "comprendí">>,
     <<"claro">>, <<"entendido">>}

\* check_understanding
check_understanding(message) == ContainsAny(understanding_phrases, Lower(message))

\* scaffold_exercise and scaffold_solution are left out: nothing in the
\* script calls set_scaffold_exercise, they stay "".
InitContextTutor ==
    [history |-> <<>>,
     topic |-> <<>>,
     knowledge_level |-> "",
     math_expressions |-> <<>>,
     user_feedback |-> <<>>,
     scaffold_understood |-> FALSE,
     current_flow_state |-> "initial"]

\* ChatMemoryContext.add_user_feedback on the dict alone
PutFeedback(fb, expr, feedback) ==
    [e \in (DOMAIN fb) \cup {expr} |-> IF e = expr THEN feedback ELSE fb[e]]

\* advance_flow that goes from calibration straight to final (a faulty
\* variant)
advance_flow_skipping(ctx) ==
    CASE ctx.current_flow_state = "initial" ->
             [ctx EXCEPT !.current_flow_state = "diagnostic"]
      [] ctx.current_flow_state = "diagnostic" ->
             [ctx EXCEPT !.current_flow_state = "calibration"]
      [] ctx.current_flow_state = "calibration" ->
             [ctx EXCEPT !.current_flow_state = "final"]
      [] ctx.current_flow_state = "scaffolding" ->
             [ctx EXCEPT !.current_flow_state = "final"]
      [] OTHER -> ctx

\* ChatMemoryContext.advance_flow
advance_flow(ctx) ==
    CASE ctx.current_flow_state = "initial" ->
             [ctx EXCEPT !.current_flow_state = "diagnostic"]
      [] ctx.current_flow_state = "diagnostic" ->
             [ctx EXCEPT !.current_flow_state = "calibration"]
      [] ctx.current_flow_state = "calibration" ->
             [ctx EXCEPT !.current_flow_state = "scaffolding"]
      [] ctx.current_flow_state = "scaffolding" ->
             [ctx EXCEPT !.current_flow_state = "final"]
      [] OTHER -> ctx

\* process_response_for_display
process_response_for_display(response) ==
    IF Contains(SENTINEL, response) THEN <<>> ELSE response

UsuarioPrefix == <<"Usuario", ":">>

\* line.split("Usuario:")[1].strip() of a line that starts with "Usuario:"
UserPart(line) == Strip(Split(line, UsuarioPrefix)[2])

\* analyze_conversation, "Extraer tema": the loop over context.history
RECURSIVE ExtractTopic(_, _, _)
ExtractTopic(history, i, topic) ==
    IF i > Len(history) THEN topic
    ELSE IF StartsWith(history[i], UsuarioPrefix) /\ Len(history) >= 3
         THEN LET potential_topic == UserPart(history[i])
              IN  IF /\ CharLen(potential_topic) > 3
                     /\ ~Contains(<<"hola">>, Lower(potential_topic))
                     /\ ~Contains(<<"nombre">>, Lower(potential_topic))
                  THEN ExtractTopic(history, i + 1, potential_topic)
                  ELSE ExtractTopic(history, i + 1, topic)
         ELSE ExtractTopic(history, i + 1, topic)

LevelOf(potential_level) ==
    IF Contains(<<"nada">>, potential_level) THEN "principiante"
    ELSE IF Contains(<<"poco">>, potential_level) THEN "intermedio"
    ELSE IF Contains(<<"mucho">>, potential_level)
            \/ Contains(<<"bastante">>, potential_level) THEN "avanzado"
    ELSE "intermedio"

\* analyze_conversation, "Extraer nivel de conocimiento": the loop
RECURSIVE ExtractLevel(_, _, _)
ExtractLevel(history, i, level) ==
    IF i > Len(history) THEN level
    ELSE IF /\ StartsWith(history[i], UsuarioPrefix)
            /\ Contains(<<"sabes">>, Lower(JoinLines(history)))
         THEN ExtractLevel(history, i + 1, LevelOf(Lower(UserPart(history[i]))))
         ELSE ExtractLevel(history, i + 1, level)

\* analyze_conversation, "Extraer expresiones matemáticas": the stripped
\* lines of the response that hold an operator character
RECURSIVE ExpressionLines(_)
ExpressionLines(lines) ==
    IF lines = <<>> THEN <<>>
    ELSE (IF \E k \in 1..Len(Head(lines)) : Head(lines)[k] \in OperatorChars
          THEN <<Strip(Head(lines))>> ELSE <<>>)
         \o ExpressionLines(Tail(lines))

\* analyze_conversation, "Extraer feedback del usuario": the inner loop over
\* the expressions for one user line
RECURSIVE FeedbackFromLine(_, _, _, _)
FeedbackFromLine(exprs, k, user_response, fb) ==
    IF k > Len(exprs) THEN fb
    ELSE IF Contains(Lower(exprs[k]), user_response)
         THEN IF ContainsAny(EasyWordsAnalyze, user_response)
              THEN FeedbackFromLine(exprs, k + 1, user_response,
                                    PutFeedback(fb, exprs[k], "fácil"))
              ELSE IF ContainsAny(HardWordsAnalyze, user_response)
              THEN FeedbackFromLine(exprs, k + 1, user_response,
                                    PutFeedback(fb, exprs[k], "difícil"))
              ELSE FeedbackFromLine(exprs, k + 1, user_response, fb)
         ELSE FeedbackFromLine(exprs, k + 1, user_response, fb)

\* analyze_conversation, "Extraer feedback del usuario": the outer loop
RECURSIVE ExtractFeedback(_, _, _, _)
ExtractFeedback(history, i, exprs, fb) ==
    IF i > Len(history) THEN fb
    ELSE IF StartsWith(history[i], UsuarioPrefix)
         THEN ExtractFeedback(history, i + 1, exprs,
                  FeedbackFromLine(exprs, 1, Lower(UserPart(history[i])), fb))
         ELSE ExtractFeedback(history, i + 1, exprs, fb)

\* analyze_conversation: the response once the control token is cut out of
\* it (lines 403-419); every later test of the function reads this text
StrippedResponse(response_content) ==
    IF Contains(SENTINEL, response_content)
    THEN Strip(Remove(response_content, SENTINEL))
    ELSE response_content

\* analyze_conversation, lines 421-431: "Extraer tema de matemáticas"
AnalyzeTopic(ctx, rc) ==
    IF /\ ctx.topic = <<>>
       /\ Contains(<<"tema">>, Lower(rc))
       /\ Contains(<<"?">>, rc)
    THEN [ctx EXCEPT !.topic = ExtractTopic(ctx.history, 1, ctx.topic)]
    ELSE ctx

\* analyze_conversation, lines 433-446: "Extraer nivel de conocimiento"
AnalyzeLevel(ctx, rc) ==
    IF /\ ctx.knowledge_level = ""
       /\ Contains(<<"sabes">>, Lower(rc))
       /\ Contains(<<"?">>, rc)
    THEN [ctx EXCEPT !.knowledge_level =
             ExtractLevel(ctx.history, 1, ctx.knowledge_level)]
    ELSE ctx

\* analyze_conversation, lines 448-455: "Extraer expresiones matemáticas"
AnalyzeExpressions(ctx, rc) ==
    IF ctx.math_expressions = <<>> /\ Contains(<<"expresión">>, Lower(rc))
    THEN LET found == {ExpressionLines(Split(rc, <<"\n">>))}
         IN  CHOOSE c \in {IF Len(expressions) >= 4
                           THEN [ctx EXCEPT !.math_expressions =
                                    SubSeq(expressions, 1, 4)]
                           ELSE ctx : expressions \in found} : TRUE
    ELSE ctx

\* analyze_conversation, lines 457-467: "Extraer feedback del usuario"
AnalyzeFeedback(ctx) ==
    IF ctx.math_expressions # <<>> /\ DOMAIN ctx.user_feedback = {}
    THEN [ctx EXCEPT !.user_feedback =
             ExtractFeedback(ctx.history, 1, ctx.math_expressions,
                             ctx.user_feedback)]
    ELSE ctx

\* analyze_conversation, lines 469-492: "Detectar cambios de estado del flujo"
AnalyzeFlow(ctx, rc) ==
    IF Contains(SENTINEL, rc)
    THEN (IF ctx.current_flow_state \in {"diagnostic", "calibration", "scaffolding"}
          THEN advance_flow(ctx) ELSE ctx)
    ELSE (IF /\ ctx.current_flow_state = "calibration"
             /\ DOMAIN ctx.user_feedback # {}
          THEN advance_flow(ctx) ELSE ctx)

\* the element of a one-element set (the steps of a function are chained
\* through one-element sets, each step reading the value the one before
\* it produced)
Only(S) == CHOOSE x \in S : TRUE

\* analyze_conversation: its effect on the context (chat() drops the tuple
\* it returns); rc is the response with the control token cut out
AnalyzeSteps(ctx, rc) ==
    Only({AnalyzeFlow(c4, rc) :
          c4 \in {AnalyzeFeedback(c3) :
          c3 \in {AnalyzeExpressions(c2, rc) :
          c2 \in {AnalyzeLevel(c1, rc) :
          c1 \in {AnalyzeTopic(ctx, rc)}}}}})

\* analyze_conversation
analyze_conversation(ctx, response_content) ==
    Only({AnalyzeSteps(c, rc) :
          c \in {ctx}, rc \in {StrippedResponse(response_content)}})

\* chat(), lines 692-725 ("Método 1"): feedback given by expression number
FeedbackByNumber(user_input, exprs, fb) ==
    LET lower == Lower(user_input)
        digits == \E num \in {"1", "2", "3", "4"} : Contains(<<num>>, lower)
        refs == {k \in 1..4 : ContainsAny(NumberWords(k), user_input)}
        named == {exprs[k] : k \in refs}
        put(f, on, v) ==
            IF on THEN [e \in (DOMAIN f) \cup named |->
                           IF e \in named THEN v ELSE f[e]]
            ELSE f
        easy == digits /\ ContainsAny(EasyWordsChat, lower)
        hard == digits /\ ContainsAny(HardWordsChat, lower)
    IN  [fb |-> put(put(fb, easy, "fácil"), hard, "difícil"),
         has_feedback |-> (easy \/ hard) /\ refs # {}]

\* chat(), lines 727-742 ("Método 2"): feedback given by quoting a fragment
\* of an expression
FeedbackByFragment(user_input, exprs, fb) ==
    LET lower == Lower(user_input)
        user_input_normalized == Remove(lower, <<" ">>)
        expr_normalized(expr) == Remove(Remove(Lower(expr), <<"\\">>), <<" ">>)
        quoted(expr) ==
            LET fragments == Split(expr_normalized(expr), <<"+">>)
            IN  \E j \in 1..Len(fragments) :
                    /\ fragments[j] # <<>>
                    /\ CharLen(fragments[j]) > 2
                    /\ Contains(fragments[j], user_input_normalized)
        named == {exprs[k] : k \in {k \in 1..Len(exprs) : quoted(exprs[k])}}
        easy == ContainsAny(EasyWordsChat, lower)
        hard == ContainsAny(HardWordsFragment, lower)
        v == IF easy THEN "fácil" ELSE "difícil"
    IN  IF (easy \/ hard) /\ named # {}
        THEN [fb |-> [e \in (DOMAIN fb) \cup named |->
                         IF e \in named THEN v ELSE fb[e]],
              has_feedback |-> TRUE]
        ELSE [fb |-> fb, has_feedback |-> FALSE]

\* chat(), lines 687-742: what the calibration branch makes of the input
ParseFeedback(user_input, exprs, fb) ==
    LET m1 == FeedbackByNumber(user_input, exprs, fb)
    IN  IF m1.has_feedback THEN m1
        ELSE FeedbackByFragment(user_input, exprs, m1.fb)

\* chat(), line 751: the transfer message made up for the calibrator; the
\* lists of expression numbers in it are left out, the text is only handed
\* to process_response_for_display
cal_response == <<"Gracias por tu feedback.", " ">> \o SENTINEL

TransferMessage ==
    <<"He completado mi diagnóstico. Ahora pasaré el control a mi colega.">>

\* chat(), lines 780-792: the agent of a flow state and the name it is
\* displayed under
AgentOfState(state) ==
    CASE state = "diagnostic"  -> [current_agent |-> DiagnosticAgent,
                                   agent_name |-> "Diagnóstico"]
      [] state = "calibration" -> [current_agent |-> CalibratorAgent,
                                   agent_name |-> "Calibrador"]
      [] state = "scaffolding" -> [current_agent |-> ScaffoldingAgent,
                                   agent_name |-> "Andamiaje"]
      [] OTHER                 -> [current_agent |-> Orchestrator,
                                   agent_name |-> "Orquestador"]

\* observation: a run of agent starts while the flow goes from old to new
RunStarts(o, agent, old, new) ==
    [o EXCEPT !.since_calibration =
        IF @ = "ended" \/ (@ = "no" /\ old = "calibration" /\ new # old)
        THEN agent ELSE @]

\* observation: a run returned; state is the flow state it ran in
RunReturns(o, agent, state, out) ==
    [o EXCEPT !.runs = Append(@, [agent |-> agent, state |-> state,
                                  output |-> out])]

\* observation: the flow went from old to new and no run starts
FlowMoves(o, old, new) ==
    [o EXCEPT !.since_calibration =
        IF @ = "no" /\ old = "calibration" /\ new # old THEN "ended" ELSE @]

\* display_agent_message
Display(o, message) == [o EXCEPT !.shown = message]

\* chat(), lines 652-667: the first Runner.run(diagnostic) returned out
Tutor_FirstRunDone(out) ==
    /\ script = "09_math_tutor"
    /\ pc = "run_first"
    /\ \E response_text \in {process_response_for_display(out)},
          o1 \in {RunReturns(obs, DiagnosticAgent, context.current_flow_state, out)} :
           /\ context' = [add_message(context, "Asistente", out)
                             EXCEPT !.current_flow_state = "diagnostic"]
           /\ obs' = IF response_text # <<>> THEN Display(o1, response_text)
                     ELSE o1
    /\ pc' = "input"
    /\ UNCHANGED <<script, locals>>

\* chat(), lines 677-685: the user line is recorded and, in the scaffolding
\* phase, tested for understanding
RecordInput(ctx, user_input) ==
    IF ctx.current_flow_state = "scaffolding" /\ check_understanding(user_input)
    THEN [add_message(ctx, "Usuario", user_input)
             EXCEPT !.scaffold_understood = TRUE]
    ELSE add_message(ctx, "Usuario", user_input)

\* chat(), line 687: the condition of the calibration branch
Calibrating(ctx) ==
    /\ ctx.current_flow_state = "calibration"
    /\ ctx.math_expressions # <<>>
    /\ DOMAIN ctx.user_feedback = {}

\* chat(), lines 671-803: from input() to the next await: the extra run of
\* the scaffolding agent when the input is taken as feedback on the
\* calibrator's expressions, else the run of the agent of the current state
Tutor_Input(user_input) ==
    /\ script = "09_math_tutor"
    /\ pc = "input"
    /\ IF Lower(user_input) = <<"exit">>
       THEN /\ pc' = "done"
            /\ UNCHANGED <<context, locals, obs>>
       ELSE /\ obs.turns < MaxTutorTurns
            /\ \E c2 \in {RecordInput(context, user_input)},
                  o1 \in {[obs EXCEPT !.turns = @ + 1, !.runs = <<>>]} :
               \E parsed \in {IF Calibrating(c2)
                              THEN ParseFeedback(user_input, c2.math_expressions,
                                                 c2.user_feedback)
                              ELSE [fb |-> c2.user_feedback,
                                    has_feedback |-> FALSE]} :
                  IF Calibrating(c2)
                     /\ (parsed.has_feedback \/ DOMAIN parsed.fb # {})
                  THEN \* lines 745-778
                       /\ context' =
                              add_message(
                                  [c2 EXCEPT !.user_feedback = parsed.fb,
                                             !.current_flow_state = "scaffolding"],
                                  "Asistente",
                                  process_response_for_display(cal_response))
                       /\ locals' = [current_agent |-> ScaffoldingAgent,
                                     agent_name |-> "Andamiaje",
                                     analyze |-> FALSE]
                       /\ obs' = RunStarts(o1, ScaffoldingAgent,
                                           c2.current_flow_state, "scaffolding")
                       /\ pc' = "run_extra"
                  ELSE \* lines 780-803
                       /\ context' = [c2 EXCEPT !.user_feedback = parsed.fb]
                       /\ locals' = AgentOfState(c2.current_flow_state)
                       /\ obs' = RunStarts(o1,
                                    AgentOfState(c2.current_flow_state).current_agent,
                                    c2.current_flow_state, c2.current_flow_state)
                       /\ pc' = "run_main"
    /\ UNCHANGED script

\* DiagnosticCompleted that does not look at the response (a faulty
\* variant)
DiagnosticCompleted_any_response(ctx, response_text) ==
    /\ ctx.current_flow_state = "diagnostic"
    /\ (IF Contains(Q1, get_history(ctx)) THEN 1 ELSE 0)
         + (IF Contains(Q2, get_history(ctx)) THEN 1 ELSE 0) >= 2

\* chat(), lines 809-818: the diagnostic has asked both questions and the
\* response asks nothing
DiagnosticCompleted(ctx, response_text) ==
    /\ ctx.current_flow_state = "diagnostic"
    /\ (IF Contains(Q1, get_history(ctx)) THEN 1 ELSE 0)
         + (IF Contains(Q2, get_history(ctx)) THEN 1 ELSE 0) >= 2
    /\ ~Contains(<<"?">>, response_text)

\* chat(), lines 856-917: the response holds the control token and the
\* state has a branch for it
ExplicitTransfer(ctx, response_text) ==
    /\ Contains(SENTINEL, response_text)
    /\ ctx.current_flow_state \in {"diagnostic", "calibration", "scaffolding"}

\* chat(), lines 859-861, 888-890, 917-919: the phase each branch of the
\* explicit transfer sets
TransferTarget(state) ==
    CASE state = "diagnostic"  -> "calibration"
      [] state = "calibration" -> "scaffolding"
      [] state = "scaffolding" -> "final"

\* chat(), lines 806-952: Runner.run(current_agent) returned response_text
Tutor_MainRunDone(response_text) ==
    /\ script = "09_math_tutor"
    /\ pc = "run_main"
    /\ \E state \in {context.current_flow_state},
          o1 \in {RunReturns(obs, locals.current_agent,
                             context.current_flow_state, response_text)} :
           IF DiagnosticCompleted(context, response_text)
           THEN \* lines 818-841
                /\ context' =
                       add_message(
                           [context EXCEPT !.current_flow_state = "calibration"],
                           "Asistente",
                           IF ~Contains(SENTINEL, response_text)
                           THEN TransferMessage
                           ELSE process_response_for_display(response_text))
                /\ locals' = [current_agent |-> CalibratorAgent,
                              agent_name |-> "Calibrador",
                              analyze |-> TRUE]
                /\ obs' = RunStarts(o1, CalibratorAgent, state, "calibration")
                /\ pc' = "run_extra"
           ELSE IF ExplicitTransfer(context, response_text)
           THEN \* lines 856-932
                \E next \in {TransferTarget(state)} :
                    /\ context' =
                           add_message(
                               [context EXCEPT !.current_flow_state = next],
                               "Asistente",
                               process_response_for_display(response_text))
                    /\ locals' = [current_agent |-> AgentOfState(next).current_agent,
                                  agent_name |-> AgentOfState(next).agent_name,
                                  analyze |-> (next # "final")]
                    /\ obs' = RunStarts(o1, AgentOfState(next).current_agent,
                                        state, next)
                    /\ pc' = "run_extra"
           ELSE \* lines 943-952
                \E display_text \in {process_response_for_display(response_text)} :
                \E c2 \in {analyze_conversation(
                               IF display_text # <<>>
                               THEN add_message(context, "Asistente", response_text)
                               ELSE context,
                               response_text)} :
                    /\ context' = c2
                    /\ locals' = NoLocals
                    /\ obs' = FlowMoves(IF display_text # <<>>
                                        THEN Display(o1, display_text) ELSE o1,
                                        state, c2.current_flow_state)
                    /\ pc' = "input"
    /\ UNCHANGED script

\* chat(), lines 766-778, 843-853, 876-886, 905-915, 934-941: the extra run
\* made right after a phase change returned extra_response
Tutor_ExtraRunDone(extra_response) ==
    /\ script = "09_math_tutor"
    /\ pc = "run_extra"
    /\ \E state \in {context.current_flow_state},
          c1 \in {add_message(context, "Asistente", extra_response)} :
       \E c2 \in {IF locals.analyze
                  THEN analyze_conversation(c1, extra_response)
                  ELSE c1} :
           /\ context' = c2
           /\ obs' = FlowMoves(
                         Display(RunReturns(obs, locals.current_agent, state,
                                            extra_response),
                                 extra_response),
                         state, c2.current_flow_state)
    /\ locals' = NoLocals
    /\ pc' = "input"
    /\ UNCHANGED script

\* what the user types: the exit word, a line that says the first
\* expression is understood and easy, a line that quotes an expression
TutorInputs ==
    {<<"exit">>,
     <<"entiendo", ",", " ", "1", " ", "fácil">>,
     <<"xyz", "+", "w", " ", "fácil">>}

\* a calibrator response: a heading and four expressions, one per line
ExpressionsText ==
    <<"expresión", "\n", "xyz", "+", "w", "\n", "a", "-", "b", "\n",
      "c", "*", "d", "\n", "e", "=", "f">>

\* what an agent answers: a plain sentence, the two diagnostic questions,
\* the control token alone, the calibrator's expressions
TutorOutputs ==
    {<<"De acuerdo.">>,
     Q1 \o <<"\n">> \o Q2,
     SENTINEL,
     ExpressionsText}

InitTutor ==
    /\ script = "09_math_tutor"
    /\ pc = "run_first"
    /\ context = InitContextTutor
    /\ locals = NoLocals
    /\ obs = InitObs

NextTutor ==
    \/ \E out \in TutorOutputs : Tutor_FirstRunDone(out)
    \/ \E inp \in TutorInputs : Tutor_Input(inp)
    \/ \E out \in TutorOutputs : Tutor_MainRunDone(out)
    \/ \E out \in TutorOutputs : Tutor_ExtraRunDone(out)
    \/ RunRaises

SpecTutor == InitTutor /\ [][NextTutor]_vars

-----------------------------------------------------------------------------
(* Functions of the scripts called on their own                            *)

\* the atoms of the texts detect_language is called with: words of both
\* languages, one with a capital, the two halves of "qué", a blank
DetectAtoms == {"Hola", "hello", "the", "qu", "é", " "}

DetectTexts == UNION {[1..n -> DetectAtoms] : n \in 0..MaxTextLen}

InitDetect ==
    /\ script = "detect_language"
    /\ pc = "call"
    /\ context = InitContextPlain
    /\ locals \in {[text |-> t] : t \in DetectTexts}
    /\ obs = InitObs

\* detect_language(text) is called and returns
Detect_Call ==
    /\ script = "detect_language"
    /\ pc = "call"
    /\ locals' = [text |-> locals.text, result |-> detect_language(locals.text)]
    /\ pc' = "returned"
    /\ UNCHANGED <<script, context, obs>>

\* new_flow_state with the branches written for the phase names of the
\* context (a faulty variant)
new_flow_state_english(response_content, flow_state) ==
    IF Contains(SENTINEL, response_content)
    THEN CASE flow_state = "diagnostic"  -> "calibration"
           [] flow_state = "calibration" -> "scaffolding"
           [] flow_state = "scaffolding" -> "final"
           [] OTHER                      -> flow_state
    ELSE flow_state

\* analyze_conversation, lines 400-416: the phase the function returns,
\* computed from its flow_state argument and the response it is handed
new_flow_state(response_content, flow_state) ==
    IF Contains(SENTINEL, response_content)
    THEN CASE flow_state = "diagnóstico" -> "calibración"
           [] flow_state = "calibración" -> "andamiaje"
           [] flow_state = "andamiaje"   -> "diagnóstico"
           [] OTHER                      -> flow_state
    ELSE flow_state

\* the responses analyze_conversation is called with: a plain one, the
\* control token alone, the token after a sentence, the token written
\* inside itself, the four expressions
AnalyzeResponses ==
    {<<"De acuerdo.">>,
     SENTINEL,
     <<"De acuerdo.", "\n">> \o SENTINEL,
     <<"[TRANSFERENCIA_", "[TRANSFERENCIA_", "CONTROL]", "CONTROL]">>,
     ExpressionsText}

\* the values of the flow_state argument: the phase names of the context
\* (what chat() passes) and the names the function compares it with
FlowStateArguments ==
    {"initial", "diagnostic", "calibration", "scaffolding", "final",
     "diagnóstico", "calibración", "andamiaje"}

\* the contexts analyze_conversation is called with: one user message in
\* the history; no expressions yet, expressions awaiting feedback, or
\* expressions with feedback recorded; each in every phase
AnalyzeContexts ==
    {[InitContextTutor EXCEPT
          !.history = <<FormatLine("Usuario", <<"xyz", "+", "w", " ", "fácil">>)>>,
          !.math_expressions = k.math_expressions,
          !.user_feedback = k.user_feedback,
          !.current_flow_state = state] :
     k \in {[math_expressions |-> <<>>, user_feedback |-> <<>>],
            [math_expressions |-> ExpressionLines(Split(ExpressionsText, <<"\n">>)),
             user_feedback |-> <<>>],
            [math_expressions |-> ExpressionLines(Split(ExpressionsText, <<"\n">>)),
             user_feedback |-> PutFeedback(<<>>, <<"xyz", "+", "w">>, "fácil")]},
     state \in {"initial", "diagnostic", "calibration", "scaffolding", "final"}}

InitAnalyze ==
    /\ script = "analyze_conversation"
    /\ pc = "call"
    /\ context \in AnalyzeContexts
    /\ locals \in {[response_content |-> r, flow_state |-> f] :
                    r \in AnalyzeResponses, f \in FlowStateArguments}
    /\ obs = InitObs

\* analyze_conversation(context, agent_name, response_content, flow_state,
\* ...) is called and returns; called_in is the phase the context held at
\* the call
Analyze_Call ==
    /\ script = "analyze_conversation"
    /\ pc = "call"
    /\ context' = analyze_conversation(context, locals.response_content)
    /\ locals' = [response_content |-> locals.response_content,
                  flow_state |-> locals.flow_state,
                  called_in |-> context.current_flow_state,
                  returned |-> new_flow_state(locals.response_content,
                                              locals.flow_state)]
    /\ pc' = "returned"
    /\ UNCHANGED <<script, obs>>

InitCalls == InitDetect \/ InitAnalyze

NextCalls == Detect_Call \/ Analyze_Call

SpecCalls == InitCalls /\ [][NextCalls]_vars

-----------------------------------------------------------------------------
(* A session of any of the scripts *)

Init == InitSeq \/ InitChat \/ InitTutor

Next == NextSeq \/ NextChat \/ NextTutor

Spec == Init /\ [][Next]_vars

-----------------------------------------------------------------------------
(* Properties                                                              *)

CountOf(seq, x) == Cardinality({i \in 1..Len(seq) : seq[i] = x})

\* C7: in the sequential chats (05 sequential_handoff, 07
\* sequential_programmatic) at most four assistant responses are produced in
\* a session, and once four have been recorded the next user input ends the
\* conversation without any agent being run.
C7_AtMostFourResponses ==
    /\ [](Len(obs.responders) <= 4)
    /\ [][(pc = "input" /\ Len(obs.responders) = 4) => pc' = "done"]_vars

\* a fifth user line, not an exit word, was read after four responses and
\* ended the conversation
C7_Witness ==
    /\ pc = "done"
    /\ Len(obs.responders) = 4
    /\ obs.turns = 5

\* C8: in 07 the first two assistant responses of a session are produced by
\* running the Spanish agent and the third and fourth by running the English
\* agent, whatever the user's inputs.
C8_SpanishTwiceThenEnglish ==
    script = "07_sequential_programmatic" =>
        \A i \in 1..Len(obs.responders) :
            obs.responders[i] = IF i <= 2 THEN SpanishAgent ELSE EnglishAgent

\* a session of 07 with four responses, the user having written in English
\* first
C8_Witness ==
    /\ script = "07_sequential_programmatic"
    /\ Len(obs.responders) = 4
    /\ obs.said[1].content = <<"hello">>

\* C9 (as stated): in 05 the first two responses come from the Spanish agent
\* and the next two from the English agent, so that spanish_responses and
\* english_responses count the responses given by each agent.
C9_CountersFollowAgents ==
    script = "05_sequential_handoff" =>
        /\ \A i \in 1..Len(obs.responders) :
               obs.responders[i] = IF i <= 2 THEN SpanishAgent ELSE EnglishAgent
        /\ context.spanish_responses = CountOf(obs.responders, SpanishAgent)
        /\ context.english_responses = CountOf(obs.responders, EnglishAgent)

-----------------------------------------------------------------------------
(* 09_chat_agent_math_tutor.py: properties *)

\* the order of the phases
FlowRank(state) ==
    CASE state = "initial"     -> 0
      [] state = "diagnostic"  -> 1
      [] state = "calibration" -> 2
      [] state = "scaffolding" -> 3
      [] state = "final"       -> 4

\* C1: every change of context.current_flow_state goes from a phase to its
\* immediate successor in the order initial, diagnostic, calibration,
\* scaffolding, final: no step goes backward, none skips a phase, and no
\* step leaves final.
C1_FlowOnlyAdvances ==
    [][\/ context'.current_flow_state = context.current_flow_state
       \/ /\ context.current_flow_state # "final"
          /\ FlowRank(context'.current_flow_state)
                 = FlowRank(context.current_flow_state) + 1]_vars

\* a whole turn was played in the final phase: the orchestrator ran and its
\* response was analysed
C1_Witness ==
    /\ pc = "input"
    /\ context.current_flow_state = "final"
    /\ Len(obs.runs) = 1
    /\ obs.runs[1].state = "final"
    /\ obs.runs[1].agent = Orchestrator

\* C2 (as stated): when the next user input is read, the flow is past every
\* phase among diagnostic, calibration and scaffolding in which a run of
\* the turn returned an output that holds the control token.
C2_SentinelAdvances ==
    pc = "input" =>
        \A i \in 1..Len(obs.runs) :
            (/\ Contains(SENTINEL, obs.runs[i].output)
             /\ obs.runs[i].state \in {"diagnostic", "calibration", "scaffolding"})
            => FlowRank(context.current_flow_state) > FlowRank(obs.runs[i].state)

\* C3 (as stated): no message displayed to the user holds the control
\* token.
C3_NoSentinelShown == ~Contains(SENTINEL, obs.shown)

\* C10 (as stated): the first agent run after the calibration phase ends
\* is the Orchestrator.
C10_OrchestratorAfterCalibration ==
    obs.since_calibration \in {"no", "ended", Orchestrator}

-----------------------------------------------------------------------------
(* The history of the context: properties *)

\* the list a context keeps its messages in
HistoryOf(ctx) ==
    IF "conversation_history" \in DOMAIN ctx
    THEN ctx.conversation_history ELSE ctx.history

C5_InstructionsHoldHistory ==
    (script \in {"08_unified_memory", "06_programmatic"} /\ pc = "run_selected")
    => /\ obs.said # <<>>
       /\ obs.said[Len(obs.said)].role = "Usuario"
       /\ Contains(JoinLines(FormatMessages(obs.said)), locals.instructions)

\* instructions are generated in a third turn, for an agent other than the
\* one that answered the first turn
C5_Witness ==
    /\ script = "08_unified_memory"
    /\ pc = "run_selected"
    /\ Len(obs.said) = 5
    /\ obs.responders[1] # locals.selected_agent

-----------------------------------------------------------------------------
(* 06_chat_agent_programmatic.py, 04_chat_agent_programmatic.py: properties *)

\* the user line of the current turn, while the turn's runs are awaited
CurrentInput == obs.said[Len(obs.said)].content

\* the language of the agent that answered the turn before, "None" in the
\* first turn
PreviousLanguage ==
    IF obs.responders = <<>> THEN "None"
    ELSE IF obs.responders[Len(obs.responders)] = SpanishAgent THEN "spanish"
    ELSE "english"

\* C11: in a turn of the programmatic chat the language detector is run if
\* and only if the input has more than three whitespace-separated words and
\* either it is the first turn or the language the patterns give for the
\* input differs from the language of the turn before; with the same
\* language as before the detector is not run.
C11_DetectorRunIff ==
    (script = "06_programmatic" /\ pc \in {"run_detector", "run_selected"})
    => ((obs.detector # "idle")
        <=> /\ Len(Words(CurrentInput)) > 3
            /\ \/ obs.turns = 1
               \/ detect_language(CurrentInput) # PreviousLanguage)

\* a later turn with a long input in the language of the turn before: the
\* detector is not run
C11_Witness ==
    /\ script = "06_programmatic"
    /\ pc = "run_selected"
    /\ obs.turns = 2
    /\ Len(Words(CurrentInput)) > 3
    /\ obs.detector = "idle"

\* the language chat() has to go by in the current turn: the detector's
\* answer if it was run and answered one of the two languages, else what
\* the patterns give
TurnLanguage ==
    IF /\ obs.detector = "answered"
       /\ Lower(Strip(obs.detected)) \in {<<"spanish">>, <<"english">>}
    THEN Lower(Strip(obs.detected))[1]
    ELSE detect_language(CurrentInput)

\* C12: the agent of a turn is chosen by the detector's answer when the
\* detector was run and its trimmed, lower-cased answer is exactly spanish
\* or english, and by the pattern-based result otherwise: the Spanish agent
\* is run if and only if that language is spanish, else the English agent,
\* and last_language is that language.
C12_AgentFollowsLanguage ==
    (script = "06_programmatic" /\ pc = "run_selected")
    => /\ locals.selected_agent =
              (IF TurnLanguage = "spanish" THEN SpanishAgent ELSE EnglishAgent)
       /\ locals.last_language = TurnLanguage

\* the detector's answer, with blanks around it and a capital, overrides
\* what the patterns give for the input
C12_Witness ==
    /\ script = "06_programmatic"
    /\ pc = "run_selected"
    /\ obs.detector = "answered"
    /\ obs.detected = <<" ", "English", "\n">>
    /\ detect_language(CurrentInput) = "spanish"
    /\ locals.selected_agent = EnglishAgent

\* C13: when the run of the language detector raises, the turn goes on with
\* the pattern-based language: the session does not end there, the agent of
\* the language the patterns give for the input is the one awaited, and
\* when that agent returns its response is appended to the history.
C13_DetectorFailureTolerated ==
    /\ []((script = "06_programmatic" /\ pc = "run_selected"
              /\ obs.detector = "raised")
          => locals.selected_agent =
                 (IF detect_language(CurrentInput) = "spanish"
                  THEN SpanishAgent ELSE EnglishAgent))
    /\ [][(script = "06_programmatic" /\ pc = "run_detector"
              /\ obs'.detector = "raised")
          => pc' = "run_selected"]_vars
    /\ [][(script = "06_programmatic" /\ pc = "run_selected"
              /\ obs.detector = "raised" /\ pc' = "input")
          => context'.history =
                 Append(context.history,
                        FormatLine("Asistente",
                                   obs'.said[Len(obs'.said)].content))]_vars

\* the detector raised on a Spanish input and the Spanish agent has
\* answered the turn
C13_Witness ==
    /\ script = "06_programmatic"
    /\ pc = "input"
    /\ obs.detector = "raised"
    /\ obs.turns = 1
    /\ obs.responders = <<SpanishAgent>>
    /\ Len(context.history) = 2

\* the number of the patterns that occur in the lower-cased text
Hits(patterns, text) ==
    Cardinality({p \in patterns : Contains(p, Lower(text))})

\* C14: detect_language returns spanish exactly when more Spanish patterns
\* than English patterns occur in the lower-cased text, and english in every
\* other case, a tie and a text with no pattern included; it returns
\* nothing else.
C14_DetectLanguageByCount ==
    (script = "detect_language" /\ pc = "returned")
    => /\ locals.result \in {"spanish", "english"}
       /\ (locals.result = "spanish")
          <=> (Hits(spanish_patterns, locals.text)
                   > Hits(english_patterns, locals.text))

\* a tie between patterns that do occur, one of them found only after
\* lower-casing: the result is english
C14_Witness ==
    /\ script = "detect_language"
    /\ pc = "returned"
    /\ locals.text = <<"Hola", " ", "hello">>
    /\ Hits(spanish_patterns, locals.text) = 1
    /\ Hits(english_patterns, locals.text) = 1
    /\ locals.result = "english"

-----------------------------------------------------------------------------
(* 09 math tutor: analyze_conversation and the diagnostic phase *)

\* C15: analyze_conversation, called with a response that contains the
\* control token and a context in the diagnostic, calibration or scaffolding
\* phase, leaves the context exactly one phase further (diagnostic to
\* calibration, calibration to scaffolding, scaffolding to final).
C15_AnalyzeAdvancesOnToken ==
    (/\ script = "analyze_conversation"
     /\ pc = "returned"
     /\ Contains(SENTINEL, locals.response_content)
     /\ locals.called_in \in {"diagnostic", "calibration", "scaffolding"})
    => context.current_flow_state = TransferTarget(locals.called_in)

C17_ReturnedPhaseDiffers ==
    (script = "analyze_conversation" /\ pc = "returned")
    => /\ (locals.flow_state \in {"diagnostic", "calibration",
                                   "scaffolding", "final"})
          => locals.returned = locals.flow_state
       /\ (/\ Contains(SENTINEL, locals.response_content)
           /\ locals.flow_state = "andamiaje")
          => locals.returned = "diagnóstico"
       /\ (locals.called_in = "scaffolding")
          => /\ advance_flow([context EXCEPT !.current_flow_state =
                                  locals.called_in]).current_flow_state = "final"
             /\ advance_flow(advance_flow(
                    [context EXCEPT !.current_flow_state = locals.called_in]))
                    .current_flow_state = "final"

\* the call made with andamiaje and the token returned diagnóstico, in a
\* context whose own phase was scaffolding
C17_Witness ==
    /\ script = "analyze_conversation"
    /\ pc = "returned"
    /\ locals.response_content = SENTINEL
    /\ locals.flow_state = "andamiaje"
    /\ locals.called_in = "scaffolding"
    /\ locals.returned = "diagnóstico"

=============================================================================
